---- MODULE Spec2Model ----
(***************************************************************************)
(* Model of dfsp-settlement-detail-report-enricher/src/csvProcessor.js:    *)
(* processCSV with its helpers createRedisClient, getHomeTransactionId     *)
(* and validateCSV.                                                        *)
(*                                                                         *)
(* Strings are sequences of tokens.  A token is either one of the          *)
(* characters the code inspects (space, comma, double quote, newline) or   *)
(* a chunk of ordinary text that holds none of them ("T1", "MWK").         *)
(* The empty string is << >>.  A value that may be undefined/null is a     *)
(* sequence of length 0 (undefined) or 1 (the value).                      *)
(***************************************************************************)
EXTENDS Integers, Sequences, FiniteSets, TLC

VARIABLES
    inputFile,      \* the rows of the file at inputPath, in file order (input)
    allRows,        \* the rows csv-parser has delivered so far
    store,          \* what the key-value store answers now, per key
    pc,             \* position in processCSV
    processedRows,  \* every row, tagged; data rows are mutated in place
    rows,           \* the data rows, as indices into processedRows
    stats,          \* totalRows, processed, found, notFound, errors
    i,              \* loop index of the processing loop (0-based)
    redisClient,    \* TRUE when the local redisClient is non-null
    clientLog,      \* what was asked of store clients, in order
    reports,        \* every invocation of progressCallback, in order
    outputFile,     \* << >> while no file exists, then << its content >>
    error,          \* cause of the failure, "" when none
    lk,             \* the call of getHomeTransactionId in progress
    calls,          \* the calls of getHomeTransactionId processCSV completed
    writes          \* how many times another client wrote to the store

vars == << inputFile, allRows, store, pc, processedRows, rows, stats, i, redisClient,
           clientLog, reports, outputFile, error, lk, calls, writes >>

----------------------------------------------------------------------------
(* Bounds *)

MaxRows == 2

MaxClassifyRows == 1

MaxWrites == 1

(* Program constants *)

ProgressEvery == 10

----------------------------------------------------------------------------
(* Strings *)

SPACE == " "
COMMA == ","
QUOTE == "\""
NEWLINE == "\n"

EmptyStr == << >>

\* JavaScript truthiness of a string: non-empty.
Truthy(s) == Len(s) > 0

RECURSIVE TrimStart(_)
TrimStart(s) ==
    IF Len(s) > 0 /\ s[1] \in {SPACE, NEWLINE} THEN TrimStart(Tail(s)) ELSE s

RECURSIVE TrimEnd(_)
TrimEnd(s) ==
    IF Len(s) > 0 /\ s[Len(s)] \in {SPACE, NEWLINE}
    THEN TrimEnd(SubSeq(s, 1, Len(s) - 1))
    ELSE s

\* String.prototype.trim
Trim(s) == TrimEnd(TrimStart(s))

\* Array.prototype.join over strings
RECURSIVE Join(_, _)
Join(parts, sep) ==
    IF Len(parts) = 0 THEN EmptyStr
    ELSE IF Len(parts) = 1 THEN parts[1]
    ELSE parts[1] \o << sep >> \o Join(Tail(parts), sep)

\* value.replace(/"/g, '""')
RECURSIVE DoubleQuotes(_)
DoubleQuotes(s) ==
    IF Len(s) = 0 THEN EmptyStr
    ELSE (IF s[1] = QUOTE THEN << QUOTE, QUOTE >> ELSE << s[1] >>)
         \o DoubleQuotes(Tail(s))

Includes(s, ch) == \E k \in 1..Len(s) : s[k] = ch

SeqsUpTo(S, n) == UNION { [1..k -> S] : k \in 0..n }

----------------------------------------------------------------------------
(* Rows: JavaScript objects with ordered keys *)

\* The column names of the file's first line.
Cols == << "Sender FSP Name", "Transfer ID", "Currency" >>

TransferIdCol == "Transfer ID"
HomeTxCol == "Home Transaction ID"
FlagCol == "_isSectionHeader"

NOT_FOUND == << "NOT_FOUND" >>
ERROR == << "ERROR" >>

\* csv-parser gives a row one key per cell present on its line: a line with
\* fewer cells than the first line yields a row that lacks the last columns,
\* and a blank line yields a row with no key at all.
\* A row is [cells, isSectionHeader, hti]: its cells in column order, the
\* _isSectionHeader flag, and its Home Transaction ID (<< >> until set).

\* Object.keys(row), in insertion order.
Keys(row) ==
    SubSeq(Cols, 1, Len(row.cells))
    \o (IF row.isSectionHeader THEN << FlagCol >> ELSE << >>)
    \o (IF row.hti # << >> THEN << HomeTxCol >> ELSE << >>)

HasKey(row, name) == \E k \in 1..Len(Keys(row)) : Keys(row)[k] = name

\* row[name] for a string-valued column: << >> when undefined, else << value >>.
Field(row, name) ==
    IF name = HomeTxCol THEN row.hti
    ELSE IF \E k \in 1..Len(row.cells) : Cols[k] = name
         THEN << row.cells[CHOOSE k \in 1..Len(row.cells) : Cols[k] = name] >>
         ELSE << >>

\* !v || v.trim() === ''   for a possibly undefined string
BlankOpt(v) == v = << >> \/ ~Truthy(v[1]) \/ Trim(v[1]) = EmptyStr

----------------------------------------------------------------------------
(* The key-value store, as the client's get answers *)

\* What get(key) does: resolves to null, to the empty string, to a string that
\* does not decode (JSON.parse or the property access raises), to a string
\* that decodes to an object (hid: its homeTransactionId, << >> when the
\* object has none), or rejects.
Nil == [t |-> "nil", hid |-> << >>]
EmptyVal == [t |-> "empty", hid |-> << >>]
Malformed == [t |-> "malformed", hid |-> << >>]
Raise == [t |-> "raise", hid |-> << >>]
Obj(hid) == [t |-> "object", hid |-> hid]

H1 == << "H1" >>
H2 == << "H2" >>
T1 == << "T1" >>
T2 == << "T2" >>

InKey(transferId) == << "transferModel_in_" >> \o transferId
OutKey(transferId) == << "transferModel_out_" >> \o transferId

StoreGet(st, key) == IF key \in DOMAIN st THEN st[key] ELSE Nil

\* !data  for what get resolved to
NoData(resp) == resp.t \in {"nil", "empty"}

\* Whether a response decodes to an object with a truthy homeTransactionId.
HasHomeId(resp) == resp.t = "object" /\ resp.hid # << >> /\ Truthy(resp.hid[1])

\* getHomeTransactionId runs from one await to the next: it either asks the
\* store for a key and suspends, or returns (result << >> is null).
Ask(key) == [done |-> FALSE, ask |-> key, result |-> << >>]
Return(result) == [done |-> TRUE, ask |-> << >>, result |-> result]

\* Mutant: the second key is tried whenever the first gave no identifier.
getHomeTransactionIdFallThrough(transferId, answers) ==
    IF BlankOpt(transferId) THEN Return(<< >>)
    ELSE IF Len(answers) = 0 THEN Ask(InKey(transferId[1]))
    ELSE IF ~HasHomeId(answers[1]) /\ Len(answers) = 1
    THEN Ask(OutKey(transferId[1]))
    ELSE LET data == answers[Len(answers)]
         IN  Return(IF HasHomeId(data) THEN data.hid ELSE << >>)

\* getHomeTransactionId(redisClient, transferId), resumed with the answers
\* the store has given to the gets of this call so far; transferId may be
\* undefined.  A rejected get or a failed decode lands in the catch block,
\* which returns null.
getHomeTransactionId(transferId, answers) ==
    IF BlankOpt(transferId) THEN Return(<< >>)
    ELSE IF Len(answers) = 0 THEN Ask(InKey(transferId[1]))
    ELSE IF answers[1].t = "raise" THEN Return(<< >>)
    ELSE IF NoData(answers[1]) /\ Len(answers) = 1
    THEN Ask(OutKey(transferId[1]))
    ELSE LET data == answers[Len(answers)]
         IN  Return(IF HasHomeId(data) THEN data.hid ELSE << >>)

\* Whether a get or the decoding raised inside a call, given its answers.
LookupRaises(answers) ==
    \E k \in 1..Len(answers) : answers[k].t \in {"raise", "malformed"}

----------------------------------------------------------------------------
(* Classification and validation *)

\* Mutant: the other columns must be empty; whitespace is not trimmed.
isHeaderRowNoTrim(cells) ==
    /\ Len(cells) > 0
    /\ Truthy(cells[1])
    /\ \A k \in 2..Len(cells) : ~Truthy(cells[k])

\* isHeaderRow of the forEach in processCSV, for a freshly parsed row.
isHeaderRow(cells) ==
    /\ Len(cells) > 0
    /\ Truthy(cells[1])
    /\ \A k \in 2..Len(cells) : ~Truthy(cells[k]) \/ Trim(cells[k]) = EmptyStr

\* processedRows after the forEach: every row, headers flagged.
ClassifyRows(all) ==
    [k \in 1..Len(all) |->
        [cells |-> all[k], isSectionHeader |-> isHeaderRow(all[k]), hti |-> << >>]]

\* rows after the forEach: the data rows, as positions in processedRows.
RECURSIVE DataIndices(_, _)
DataIndices(tagged, k) ==
    IF k > Len(tagged) THEN << >>
    ELSE (IF tagged[k].isSectionHeader THEN << >> ELSE << k >>)
         \o DataIndices(tagged, k + 1)

\* The rows validateCSV warns about: those with an empty Transfer ID.
EmptyTransferIds(dataRows) ==
    { k \in 1..Len(dataRows) : BlankOpt(Field(dataRows[k], TransferIdCol)) }

\* Mutant: the required column is not checked.
validateCSVNoColumnCheck(dataRows) ==
    IF Len(dataRows) = 0
    THEN [valid |-> FALSE, errors |-> << "CSV file is empty" >>, warnings |-> 0]
    ELSE [valid |-> TRUE, errors |-> << >>,
          warnings |-> IF EmptyTransferIds(dataRows) # {} THEN 1 ELSE 0]

\* validateCSV(rows): valid, the errors collected, the number of warnings.
validateCSV(dataRows) ==
    IF Len(dataRows) = 0
    THEN [valid |-> FALSE, errors |-> << "CSV file is empty" >>, warnings |-> 0]
    ELSE LET errors == IF ~HasKey(dataRows[1], TransferIdCol)
                       THEN << "Missing required column: Transfer ID" >>
                       ELSE << >>
         IN  [valid |-> Len(errors) = 0, errors |-> errors,
              warnings |-> IF EmptyTransferIds(dataRows) # {} THEN 1 ELSE 0]

----------------------------------------------------------------------------
(* Serialization *)

\* row[colName] || ''
OrEmpty(v) == IF v = << >> \/ ~Truthy(v[1]) THEN EmptyStr ELSE v[1]

\* The quoting of one value of a data row (lines 241-246).
EscapeValue(value) ==
    IF Includes(value, COMMA) \/ Includes(value, QUOTE) \/ Includes(value, NEWLINE)
    THEN << QUOTE >> \o DoubleQuotes(value) \o << QUOTE >>
    ELSE value

\* Object.keys(firstDataRow).filter(key => key !== '_isSectionHeader')
ColumnNames(firstDataRow) == SelectSeq(Keys(firstDataRow), LAMBDA c : c # FlagCol)

\* columnNames.map(name => `"${name}"`).join(',')
HeaderLine(columnNames) ==
    Join([k \in 1..Len(columnNames) |-> << QUOTE, columnNames[k], QUOTE >>], COMMA)

\* The line of a data row: its values under columnNames, joined.
DataLine(row, columnNames) ==
    Join([k \in 1..Len(columnNames) |->
            EscapeValue(OrEmpty(Field(row, columnNames[k])))], COMMA)

\* The line of a section header: the bare value of its first column.
SectionLine(row) == row.cells[1]

\* Mutant: section headers are left out of the output.
BuildOutputDataOnly(processed, dataIdx) ==
    LET columnNames == ColumnNames(processed[dataIdx[1]])
    IN  << HeaderLine(columnNames) >>
        \o [k \in 1..Len(dataIdx) |-> DataLine(processed[dataIdx[k]], columnNames)]

\* outputLines (lines 222-250): the column names, then one line per row.
BuildOutput(processed, dataIdx) ==
    LET columnNames == ColumnNames(processed[dataIdx[1]])
    IN  << HeaderLine(columnNames) >>
        \o [k \in 1..Len(processed) |->
              IF processed[k].isSectionHeader
              THEN SectionLine(processed[k])
              ELSE DataLine(processed[k], columnNames)]

----------------------------------------------------------------------------
(* Numbers: IEEE-754 doubles, for positive values *)

\* The significand of a double holds 53 bits.
SignificandBits == 53

\* A double is [bits, exp]: its significand as a sequence of SignificandBits
\* bits, the first being 1, and the exponent of that first bit: the value is
\* bits[1] * 2^exp + bits[2] * 2^(exp - 1) + ...
\* The operators below work on eight bits at a time.

\* The w lowest binary digits of a natural number, most significant first.
ToBits(n, w) == [j \in 1..w |-> (n \div 2^(w - j)) % 2]

\* The integer a sequence of bits stands for.
RECURSIVE BitsToInt(_)
BitsToInt(bits) ==
    IF Len(bits) = 0 THEN 0
    ELSE 2 * BitsToInt(SubSeq(bits, 1, Len(bits) - 1)) + bits[Len(bits)]

\* The binary digits of a natural number, none for 0.
RECURSIVE Binary(_)
Binary(n) == IF n = 0 THEN << >> ELSE Binary(n \div 2) \o << n % 2 >>

\* Add one to a sequence of bits; a carry out of the first bit lengthens it.
Increment(bits) ==
    LET zeros == { k \in 1..Len(bits) : bits[k] = 0 }
    IN  IF zeros = {}
        THEN << 1 >> \o [k \in 1..Len(bits) |-> 0]
        ELSE LET last == CHOOSE k \in zeros : \A l \in zeros : l <= k
             IN  [k \in 1..Len(bits) |->
                    IF k < last THEN bits[k] ELSE IF k = last THEN 1 ELSE 0]

\* Round to nearest, ties to even: bits starts with 1 and has at least
\* SignificandBits bits, exp is the exponent of its first bit, and more tells
\* whether the exact value has non-zero bits after the last one of bits.
RoundToDouble(bits, exp, more) ==
    LET kept == SubSeq(bits, 1, SignificandBits)
        guard == IF Len(bits) > SignificandBits THEN bits[SignificandBits + 1] ELSE 0
        sticky == more \/ \E k \in (SignificandBits + 2)..Len(bits) : bits[k] = 1
        up == guard = 1 /\ (sticky \/ kept[SignificandBits] = 1)
        sum == IF up THEN Increment(kept) ELSE kept
    IN  IF Len(sum) > SignificandBits
        THEN [bits |-> SubSeq(sum, 1, SignificandBits), exp |-> exp + 1]
        ELSE [bits |-> sum, exp |-> exp]

\* n, d and e with d <= n < 2 * d and a / b = (n / d) * 2^e
RECURSIVE Normalize(_, _, _)
Normalize(n, d, e) ==
    IF n < d THEN Normalize(2 * n, d, e - 1)
    ELSE IF n >= 2 * d THEN Normalize(n, 2 * d, e + 1)
    ELSE [n |-> n, d |-> d, e |-> e]

\* Long division: the next k bits of r / d (r < d), and what remains.
RECURSIVE QuotientBits(_, _, _, _)
QuotientBits(r, d, k, acc) ==
    IF k = 0 THEN [bits |-> acc, rem |-> r]
    ELSE LET w == IF k < 8 THEN k ELSE 8
             scaled == r * 2^w
         IN  QuotientBits(scaled % d, d, k - w, acc \o ToBits(scaled \div d, w))

\* a / b on doubles, for integers a and b from 1 to 2^22.
Quotient(a, b) ==
    LET nm == Normalize(a, b, 0)
        q == QuotientBits(nm.n - nm.d, nm.d, SignificandBits, << 1 >>)
    IN  RoundToDouble(q.bits, nm.e, q.rem # 0)

\* The exact product of a sequence of bits and a natural number c, from the
\* last bits to the first.
RECURSIVE ProductBits(_, _, _, _)
ProductBits(bits, c, carry, acc) ==
    IF Len(bits) = 0 THEN Binary(carry) \o acc
    ELSE LET w == IF Len(bits) < 8 THEN Len(bits) ELSE 8
             low == SubSeq(bits, Len(bits) - w + 1, Len(bits))
             v == BitsToInt(low) * c + carry
         IN  ProductBits(SubSeq(bits, 1, Len(bits) - w), c, v \div 2^w,
                         ToBits(v % 2^w, w) \o acc)

\* x * c on doubles, for a double x and an integer c > 0.
TimesSmall(x, c) ==
    LET prod == ProductBits(x.bits, c, 0, << >>)
    IN  RoundToDouble(prod, x.exp + (Len(prod) - SignificandBits), FALSE)

\* Math.floor of a double whose integer part fits the significand.
Floor(x) ==
    IF x.exp < 0 THEN 0 ELSE BitsToInt(SubSeq(x.bits, 1, x.exp + 1))

----------------------------------------------------------------------------
(* Inputs *)

MWK == << "MWK" >>

\* The rows of the datasets processCSV is run on.
RowKinds ==
    { << MWK, EmptyStr, << SPACE >> >>,
      << >>,
      << << "a" >>, T1 >>,
      << << "a" >>, T1, << "x", COMMA, QUOTE >> >>,
      << << "a" >>, EmptyStr, << "x" >> >>,
      << EmptyStr, << SPACE >>, << "x" >> >> }

MkStore(inResp, outResp) == (InKey(T1) :> inResp) @@ (OutKey(T1) :> outResp)

\* The stores processCSV is run against.
StoreCases ==
    { MkStore(Obj(<< H1 >>), Obj(<< H2 >>)),
      MkStore(Nil, Obj(<< H2 >>)),
      MkStore(Nil, Nil),
      MkStore(Raise, Obj(<< H2 >>)),
      MkStore(Nil, Malformed),
      MkStore(Obj(<< >>), Obj(<< H2 >>)) }

\* The characters the file system takes for the output file: any number
\* (<< >>), or a number that ends inside the first column name or among the
\* rows.
RoomCases == { << >>, << 5 >>, << 56 >> }

\* What another client leaves under a key: nothing (DEL) or a payload (SET).
WrittenValues(key) ==
    { Nil, IF key = InKey(T1) THEN Obj(<< H1 >>) ELSE Obj(<< H2 >>) }

\* Every answer a key may give, h being the identifier of its payload.
Responses(h) ==
    { Nil, EmptyVal, Malformed, Raise, Obj(<< >>), Obj(<< EmptyStr >>), Obj(<< h >>) }

\* The stores and arguments getHomeTransactionId is called with directly.
AllStores == { MkStore(a, b) : a \in Responses(H1), b \in Responses(H2) }

TransferIdArgs ==
    { << >>, << EmptyStr >>, << << SPACE >> >>, << T1 >>, << T2 >>, << << SPACE, "T1" >> >> }

\* The cells of the rows the classifier is run on directly.
ClassifyCells == { EmptyStr, << SPACE >>, << "x" >>, << SPACE, "x" >> }

ClassifyRowKinds == UNION { [1..n -> ClassifyCells] : n \in 0..Len(Cols) }

----------------------------------------------------------------------------
(* State *)

NoStats == [totalRows |-> 0, processed |-> 0, found |-> 0, notFound |-> 0, errors |-> 0]

\* A call of getHomeTransactionId: its argument, the keys it has asked the
\* store for, the answers received, its result once done.
NoCall == [transferId |-> << >>, gets |-> << >>, answers |-> << >>,
           result |-> << >>, done |-> FALSE]

InitLocals ==
    /\ processedRows = << >>
    /\ rows = << >>
    /\ stats = NoStats
    /\ i = 0
    /\ redisClient = FALSE
    /\ clientLog = << >>
    /\ reports = << >>
    /\ outputFile = << >>
    /\ error = ""
    /\ calls = << >>
    /\ writes = 0

Init ==
    /\ inputFile \in SeqsUpTo(RowKinds, MaxRows)
    /\ allRows = << >>
    /\ store \in StoreCases
    /\ pc = "start"
    /\ lk = NoCall
    /\ InitLocals

\* One invocation of progressCallback: progress is << >> when the record has
\* none; raised tells whether the callback threw.
Rep(status, progress, raised) == [status |-> status, progress |-> progress, raised |-> raised]

ClientOp(op, key) == [op |-> op, key |-> key]

\* The data row rows[k] (1-based), read through processedRows.
DataRow(k) == processedRows[rows[k]]

----------------------------------------------------------------------------
(* processCSV *)

\* Lines 111-117: report 'reading', open the read stream and pipe it into
\* the parser; processCSV then awaits the promise of line 115.
ReadCSV ==
    /\ pc = "start"
    /\ \E raised \in BOOLEAN :
        /\ reports' = Append(reports, Rep("reading", << >>, raised))
        /\ IF raised THEN pc' = "catch" /\ error' = "callback"
           ELSE pc' = "awaitRead" /\ error' = error
    /\ UNCHANGED << inputFile, allRows, store, processedRows, rows, stats, i,
                    redisClient, clientLog, outputFile, lk, calls, writes >>

\* Lines 118-120: the parser's 'data' handler receives the next row of the
\* file while the read is awaited.
OnData ==
    /\ pc = "awaitRead"
    /\ Len(allRows) < Len(inputFile)
    /\ allRows' = Append(allRows, inputFile[Len(allRows) + 1])
    /\ UNCHANGED << inputFile, store, pc, processedRows, rows, stats, i,
                    redisClient, clientLog, reports, outputFile, error, lk,
                    calls, writes >>

\* Lines 121-123: the awaited read settles.  'end' comes once every row was
\* delivered and resolves the promise; the parser's 'error' event, the only
\* one with a handler, rejects it.  When the file cannot be opened or read,
\* the read stream emits 'error', which nothing handles: the process is
\* aborted or, where the host survives the event, the promise stays pending;
\* in both cases processCSV neither returns nor throws.
ReadSettles ==
    /\ pc = "awaitRead"
    /\ \E outcome \in {"end", "parserError", "streamError"} :
        IF outcome = "end"
        THEN Len(allRows) = Len(inputFile) /\ pc' = "read" /\ error' = error
        ELSE IF outcome = "parserError" THEN pc' = "catch" /\ error' = "read"
        ELSE pc' \in {"aborted", "pending"} /\ error' = "read"
    /\ UNCHANGED << inputFile, allRows, store, processedRows, rows, stats, i,
                    redisClient, clientLog, reports, outputFile, lk, calls,
                    writes >>

\* Lines 125-160: report 'validating', separate section headers from data rows.
Classify ==
    /\ pc = "read"
    /\ LET tagged == ClassifyRows(allRows)
           idx == DataIndices(tagged, 1)
           nHeaders == Len(tagged) - Len(idx)
       IN  \E r1 \in BOOLEAN, r2 \in BOOLEAN :
            IF r1
            THEN /\ reports' = Append(reports, Rep("validating", << >>, TRUE))
                 /\ pc' = "catch" /\ error' = "callback"
                 /\ UNCHANGED << processedRows, rows, stats >>
            ELSE /\ processedRows' = tagged
                 /\ rows' = idx
                 /\ stats' = [stats EXCEPT !.totalRows = Len(idx)]
                 /\ IF nHeaders > 0
                    THEN /\ reports' = reports \o << Rep("validating", << >>, FALSE),
                                                    Rep("validating", << >>, r2) >>
                         /\ IF r2 THEN pc' = "catch" /\ error' = "callback"
                            ELSE pc' = "classified" /\ error' = error
                    ELSE /\ r2 = FALSE
                         /\ reports' = Append(reports, Rep("validating", << >>, FALSE))
                         /\ pc' = "classified" /\ error' = error
    /\ UNCHANGED << inputFile, allRows, store, i, redisClient, clientLog, outputFile, lk,
                    calls, writes >>

\* Lines 162-176: the validation gate, then report 'connecting'.
Validate ==
    /\ pc = "classified"
    /\ LET dataRows == [k \in 1..Len(rows) |-> DataRow(k)]
       IN  IF Len(rows) = 0
           THEN pc' = "catch" /\ error' = "noRows" /\ reports' = reports
           ELSE IF ~validateCSV(dataRows).valid
           THEN pc' = "catch" /\ error' = "invalid" /\ reports' = reports
           ELSE \E raised \in BOOLEAN :
                 /\ reports' = Append(reports, Rep("connecting", << >>, raised))
                 /\ IF raised THEN pc' = "catch" /\ error' = "callback"
                    ELSE pc' = "validated" /\ error' = error
    /\ UNCHANGED << inputFile, allRows, store, processedRows, rows, stats, i, redisClient,
                    clientLog, outputFile, lk, calls, writes >>

\* Line 179 up to the await of line 21: createRedisClient creates a client,
\* registers its 'error' handler and calls connect(), whose promise
\* processCSV awaits; redisClient is still null.
Connect ==
    /\ pc = "validated"
    /\ clientLog' = Append(clientLog, ClientOp("create", << >>))
    /\ pc' = "awaitConnect"
    /\ UNCHANGED << inputFile, allRows, store, processedRows, rows, stats, i,
                    redisClient, reports, outputFile, error, lk, calls, writes >>

\* Lines 21-22 and 179: the awaited connect() settles; redisClient is
\* assigned only when it resolves.
ConnectSettles ==
    /\ pc = "awaitConnect"
    /\ \E connected \in BOOLEAN :
        IF connected
        THEN redisClient' = TRUE /\ pc' = "connected" /\ error' = error
        ELSE redisClient' = redisClient /\ pc' = "catch" /\ error' = "connect"
    /\ UNCHANGED << inputFile, allRows, store, processedRows, rows, stats, i,
                    clientLog, reports, outputFile, lk, calls, writes >>

\* Line 181: report 'processing' before the loop.
BeginProcessing ==
    /\ pc = "connected"
    /\ \E raised \in BOOLEAN :
        /\ reports' = Append(reports, Rep("processing", << >>, raised))
        /\ IF raised THEN pc' = "catch" /\ error' = "callback"
           ELSE pc' = "loop" /\ error' = error
    /\ i' = 0
    /\ UNCHANGED << inputFile, allRows, store, processedRows, rows, stats, redisClient,
                    clientLog, outputFile, lk, calls, writes >>

\* Math.floor((processed / totalRows) * 100), as computed on doubles.
Percent(processed, totalRows) ==
    IF processed = 0 THEN 0
    ELSE Floor(TimesSmall(Quotient(processed, totalRows), 100))

\* Lines 184-217: one iteration of the loop, its catch block included, run
\* from one await to the next.  The iteration starts at the top of the loop
\* or resumes when the store answers the get in flight with what it holds
\* then; it either issues the next get of getHomeTransactionId and suspends,
\* or enriches the row, counts it and reports.
ProcessRow ==
    /\ pc \in {"loop", "awaitGet"}
    /\ i < Len(rows)
    /\ LET row == DataRow(i + 1)
           transferId == Field(row, TransferIdCol)
           gets == IF pc = "loop" THEN << >> ELSE lk.gets
           answers == IF pc = "loop" THEN << >>
                      ELSE Append(lk.answers, StoreGet(store, gets[Len(gets)]))
           call == getHomeTransactionId(transferId, answers)
           hit == call.result # << >>
           counted == [stats EXCEPT
                          !.found = IF hit THEN @ + 1 ELSE @,
                          !.notFound = IF hit THEN @ ELSE @ + 1,
                          !.processed = @ + 1]
           due == (i % ProgressEvery = 0) \/ (i = Len(rows) - 1)
       IN  IF ~call.done
           THEN /\ clientLog' = Append(clientLog, ClientOp("get", call.ask))
                /\ lk' = [NoCall EXCEPT !.transferId = transferId,
                                        !.gets = Append(gets, call.ask),
                                        !.answers = answers]
                /\ pc' = "awaitGet"
                /\ UNCHANGED << processedRows, stats, reports, i, calls >>
           ELSE /\ clientLog' = clientLog
                /\ lk' = NoCall
                /\ calls' = Append(calls, [NoCall EXCEPT !.transferId = transferId,
                                                         !.gets = gets,
                                                         !.answers = answers,
                                                         !.result = call.result,
                                                         !.done = TRUE])
                /\ pc' = "loop"
                /\ i' = i + 1
                /\ \E raised \in BOOLEAN :
                     IF due
                     THEN /\ reports' = Append(reports,
                               Rep("processing",
                                   << Percent(counted.processed, counted.totalRows) >>,
                                   raised))
                          /\ IF raised
                             THEN /\ processedRows' =
                                       [processedRows EXCEPT ![rows[i + 1]].hti = << ERROR >>]
                                  /\ stats' = [counted EXCEPT !.errors = @ + 1,
                                                              !.processed = @ + 1]
                             ELSE /\ processedRows' =
                                       [processedRows EXCEPT ![rows[i + 1]].hti =
                                           IF hit THEN call.result ELSE << NOT_FOUND >>]
                                  /\ stats' = counted
                     ELSE /\ raised = FALSE
                          /\ reports' = reports
                          /\ processedRows' =
                               [processedRows EXCEPT ![rows[i + 1]].hti =
                                   IF hit THEN call.result ELSE << NOT_FOUND >>]
                          /\ stats' = counted
    /\ UNCHANGED << inputFile, allRows, store, rows, redisClient, outputFile, error, writes >>

\* The positions at which processCSV, or getHomeTransactionId called on its
\* own, is suspended in an await.
Awaiting ==
    pc \in {"awaitRead", "awaitConnect", "awaitGet", "awaitWrite", "fileOpen",
            "fileWritten", "awaitDisconnect", "lookupGet"}

\* Another client of the store sets or deletes one of the keys while this
\* program is suspended in an await.
StoreWrite ==
    /\ Awaiting
    /\ writes < MaxWrites
    /\ \E key \in DOMAIN store :
        \E resp \in WrittenValues(key) :
            /\ resp # store[key]
            /\ store' = [store EXCEPT ![key] = resp]
    /\ writes' = writes + 1
    /\ UNCHANGED << inputFile, allRows, pc, processedRows, rows, stats, i,
                    redisClient, clientLog, reports, outputFile, error, lk,
                    calls >>

\* The text handed to writeFile: outputLines.join('\n')
OutputText(processed, dataIdx) == Join(BuildOutput(processed, dataIdx), NEWLINE)

\* What a file holds: whole tokens, then possibly the first chars characters
\* of one more token (part is << >> when the file ends with a whole token).
FileOf(text, part) == [text |-> text, part |-> part]

\* The number of characters of tokens from..to of a text.
RECURSIVE Size(_, _, _)
Size(text, from, to) ==
    IF from > to THEN 0
    ELSE IF from = to THEN Len(text[from])
    ELSE LET mid == (from + to) \div 2
         IN  Size(text, from, mid) + Size(text, mid + 1, to)

\* The first n characters of a text that has more than n.
Beginning(text, n) ==
    LET cut == CHOOSE k \in 0..(Len(text) - 1) :
                  Size(text, 1, k) <= n /\ n < Size(text, 1, k + 1)
        chars == n - Size(text, 1, cut)
    IN  FileOf(SubSeq(text, 1, cut),
               IF chars = 0 THEN << >>
               ELSE << [of |-> text[cut + 1], chars |-> chars] >>)

\* The whole of a text, as a file.
Whole(text) == FileOf(text, << >>)

\* Lines 219-253, up to the await: report 'writing', build the output lines
\* and hand their join to writeFile, whose promise processCSV awaits.  No
\* file exists yet.
WriteOutput ==
    /\ pc = "loop"
    /\ i = Len(rows)
    /\ \E raised \in BOOLEAN :
        /\ reports' = Append(reports, Rep("writing", << >>, raised))
        /\ IF raised THEN pc' = "catch" /\ error' = "callback"
           ELSE pc' = "awaitWrite" /\ error' = error
    /\ UNCHANGED << inputFile, allRows, store, processedRows, rows, stats, i,
                    redisClient, clientLog, outputFile, lk, calls, writes >>

\* writeFile (line 253) opens the file: it is created empty, or the open
\* fails and the promise rejects with no file left behind.
OpenOutput ==
    /\ pc = "awaitWrite"
    /\ \E created \in BOOLEAN :
        IF created
        THEN /\ outputFile' = << Whole(<< >>) >>
             /\ pc' = "fileOpen" /\ error' = error
        ELSE /\ outputFile' = outputFile
             /\ pc' = "catch" /\ error' = "write"
    /\ UNCHANGED << inputFile, allRows, store, processedRows, rows, stats, i,
                    redisClient, clientLog, reports, lk, calls, writes >>

\* writeFile (line 253) writes the text into the open file: all of it, or,
\* when the file system has room for less, the characters it takes.
WriteData ==
    /\ pc = "fileOpen"
    /\ \E room \in RoomCases :
        LET text == OutputText(processedRows, rows)
            fits == room = << >> \/ Size(text, 1, Len(text)) <= room[1]
        IN  outputFile' = << IF fits THEN Whole(text) ELSE Beginning(text, room[1]) >>
    /\ pc' = "fileWritten"
    /\ UNCHANGED << inputFile, allRows, store, processedRows, rows, stats, i,
                    redisClient, clientLog, reports, error, lk, calls, writes >>

\* The awaited writeFile (line 253) settles: it resolves when the file holds
\* the whole text and rejects otherwise, leaving behind what was written.
WriteSettles ==
    /\ pc = "fileWritten"
    /\ IF outputFile = << Whole(OutputText(processedRows, rows)) >>
       THEN pc' = "written" /\ error' = error
       ELSE pc' = "catch" /\ error' = "write"
    /\ UNCHANGED << inputFile, allRows, store, processedRows, rows, stats, i,
                    redisClient, clientLog, reports, outputFile, lk, calls,
                    writes >>

\* Lines 255-257: report 'complete', return the statistics.
Complete ==
    /\ pc = "written"
    /\ \E raised \in BOOLEAN :
        /\ reports' = Append(reports, Rep("complete", << >>, raised))
        /\ IF raised THEN pc' = "catch" /\ error' = "callback"
           ELSE pc' = "return" /\ error' = error
    /\ UNCHANGED << inputFile, allRows, store, processedRows, rows, stats, i, redisClient,
                    clientLog, outputFile, lk, calls, writes >>

\* Lines 259-265, up to the await: the catch block rethrows; the finally
\* block calls disconnect() on the client when redisClient is set and awaits
\* it.  With no client processCSV returns or throws at once.
Finally ==
    /\ pc \in {"return", "catch"}
    /\ IF redisClient
       THEN /\ clientLog' = Append(clientLog, ClientOp("disconnect", << >>))
            /\ pc' = "awaitDisconnect"
       ELSE /\ clientLog' = clientLog
            /\ pc' = IF pc = "return" THEN "returned" ELSE "thrown"
    /\ UNCHANGED << inputFile, allRows, store, processedRows, rows, stats, i,
                    redisClient, reports, outputFile, error, lk, calls, writes >>

\* Lines 265-267: the awaited disconnect() settles.  When it resolves,
\* processCSV completes as it was about to, returning the statistics if
\* nothing was thrown (error is "") and rethrowing otherwise; a rejected
\* disconnect is thrown in place of either.
DisconnectSettles ==
    /\ pc = "awaitDisconnect"
    /\ \E closed \in BOOLEAN :
        IF closed
        THEN /\ pc' = IF error = "" THEN "returned" ELSE "thrown"
             /\ error' = error
        ELSE pc' = "thrown" /\ error' = "disconnect"
    /\ UNCHANGED << inputFile, allRows, store, processedRows, rows, stats, i,
                    redisClient, clientLog, reports, outputFile, lk, calls,
                    writes >>

Next ==
    \/ ReadCSV
    \/ OnData
    \/ ReadSettles
    \/ Classify
    \/ Validate
    \/ Connect
    \/ ConnectSettles
    \/ BeginProcessing
    \/ ProcessRow
    \/ StoreWrite
    \/ WriteOutput
    \/ OpenOutput
    \/ WriteData
    \/ WriteSettles
    \/ Complete
    \/ Finally
    \/ DisconnectSettles

Spec == Init /\ [][Next]_vars

----------------------------------------------------------------------------
(* getHomeTransactionId called on its own *)

InitLookup ==
    /\ inputFile = << >>
    /\ allRows = << >>
    /\ store \in AllStores
    /\ pc = "lookup"
    /\ lk \in { [NoCall EXCEPT !.transferId = t] : t \in TransferIdArgs }
    /\ InitLocals

\* getHomeTransactionId run from one await to the next: the call starts, or
\* resumes when the store answers the get in flight with what it holds then.
CallGetHomeTransactionId ==
    /\ pc \in {"lookup", "lookupGet"}
    /\ LET answers == IF pc = "lookup" THEN << >>
                      ELSE Append(lk.answers, StoreGet(store, lk.gets[Len(lk.gets)]))
           call == getHomeTransactionId(lk.transferId, answers)
       IN  /\ lk' = [lk EXCEPT !.answers = answers,
                               !.gets = IF call.done THEN @ ELSE Append(@, call.ask),
                               !.result = call.result,
                               !.done = call.done]
           /\ pc' = IF call.done THEN "lookupDone" ELSE "lookupGet"
    /\ UNCHANGED << inputFile, allRows, store, processedRows, rows, stats, i, redisClient,
                    clientLog, reports, outputFile, error, calls, writes >>

NextLookup ==
    \/ CallGetHomeTransactionId
    \/ StoreWrite

SpecLookup == InitLookup /\ [][NextLookup]_vars

----------------------------------------------------------------------------
(* The classifier run on its own *)

InitClassify ==
    /\ inputFile \in UNION { [1..n -> ClassifyRowKinds] : n \in 1..MaxClassifyRows }
    /\ allRows = inputFile
    /\ store = MkStore(Nil, Nil)
    /\ pc = "read"
    /\ lk = NoCall
    /\ InitLocals

SpecClassify == InitClassify /\ [][Classify]_vars

----------------------------------------------------------------------------
(* Vocabulary of the properties *)

\* The store operations of a kind, as positions in clientLog.
OpsOf(op) == { k \in 1..Len(clientLog) : clientLog[k].op = op }

\* The data rows the loop has handled so far (1-based positions in rows).
Handled == 1..i

TransferIdOf(k) == Field(DataRow(k), TransferIdCol)

BlankHandled == { k \in Handled : BlankOpt(TransferIdOf(k)) }

\* The rows handled so far during whose lookup a get or the decoding raised.
RaisedHandled == { k \in Handled : LookupRaises(calls[k].answers) }

\* The write of the output file has succeeded.
OutputWritten ==
    \/ pc = "written"
    \/ \E k \in 1..Len(reports) : reports[k].status = "complete"

NoRowEnriched == \A k \in 1..Len(processedRows) : processedRows[k].hti = << >>

CallbackRaised == \E k \in 1..Len(reports) : reports[k].raised

\* The reports of the processing stage that carry a percentage.
ProgressReports ==
    { k \in 1..Len(reports) :
        reports[k].status = "processing" /\ reports[k].progress # << >> }

StatusRank(status) ==
    CASE status = "reading" -> 1
      [] status = "validating" -> 2
      [] status = "connecting" -> 3
      [] status = "processing" -> 4
      [] status = "writing" -> 5
      [] status = "complete" -> 6

\* A string made of whitespace only (the empty string included).
WhitespaceOnly(s) == \A t \in 1..Len(s) : s[t] \in {SPACE, NEWLINE}

----------------------------------------------------------------------------
(* C1 *)

\* C1: when processCSV returns, processed = found + notFound + errors and
\* processed = totalRows (the number of data rows).
C1_StatsBalance ==
    pc = "returned" =>
        /\ stats.processed = stats.found + stats.notFound + stats.errors
        /\ stats.processed = stats.totalRows
        /\ stats.totalRows = Len(rows)

----------------------------------------------------------------------------
(* C2 *)

\* C2: a data row whose store lookup or payload decoding raised is marked
\* ERROR and counted under errors, not under notFound; the run goes on.
C2_LookupFailureIsError ==
    /\ \A k \in RaisedHandled : DataRow(k).hti = << ERROR >>
    /\ stats.errors >= Cardinality(RaisedHandled)
    /\ stats.notFound <= Cardinality(Handled \ RaisedHandled)

----------------------------------------------------------------------------
(* C3, under SpecLookup *)

\* C3: for a non-blank transfer id the _in_ key is asked first and the _out_
\* key only when the first get gave no value (null or the empty string); when
\* only the _out_ get gives a payload, the result is that payload's
\* homeTransactionId; when the _in_ get gives a payload the result comes from
\* it and _out_ is not asked, so an _in_ payload without homeTransactionId is
\* a miss whatever _out_ holds.  A payload is a stored object; an empty
\* homeTransactionId counts as none, a miss.  While no other client has
\* written, the answers are what the store holds.
C3_FallbackOrder ==
    (lk.done /\ ~BlankOpt(lk.transferId)) =>
        LET id == lk.transferId[1]
            n == Len(lk.gets)
            inResp == lk.answers[1]
            idOf(resp) == IF HasHomeId(resp) THEN resp.hid ELSE << >>
        IN  /\ n \in {1, 2}
            /\ Len(lk.answers) = n
            /\ lk.gets[1] = InKey(id)
            /\ n = 2 => (lk.gets[2] = OutKey(id) /\ NoData(inResp))
            /\ NoData(inResp) => n = 2
            /\ (n = 2 /\ lk.answers[2].t = "object") =>
                  lk.result = idOf(lk.answers[2])
            /\ inResp.t = "object" => (n = 1 /\ lk.result = idOf(inResp))
            /\ writes = 0 =>
                  \A k \in 1..n : lk.answers[k] = StoreGet(store, lk.gets[k])

\* A payload without the field under _in_, one with it under _out_: a miss,
\* and only the first key was asked.
C3_Witness ==
    /\ lk.done
    /\ lk.transferId = << T1 >>
    /\ store[InKey(T1)] = Obj(<< >>)
    /\ store[OutKey(T1)] = Obj(<< H2 >>)
    /\ lk.result = << >>
    /\ lk.gets = << InKey(T1) >>

----------------------------------------------------------------------------
(* C4 *)

\* The data rows of the input file, as the classifier leaves them.
InputDataRows ==
    LET tagged == ClassifyRows(inputFile)
        idx == DataIndices(tagged, 1)
    IN  [k \in 1..Len(idx) |-> tagged[idx[k]]]

\* The input has no data row, or its first data row has no Transfer ID column.
SetupInvalid ==
    \/ Len(InputDataRows) = 0
    \/ ~HasKey(InputDataRows[1], TransferIdCol)

\* C4: with no data rows or no Transfer ID column in the first data row the
\* run never gets past validation: no client is created, no lookup issued, no
\* row enriched, no output written, and the run does not return; when the
\* connection fails the same holds except that a client was created.  Holds
\* in every state of the run, those in which the read, the connect or the
\* disconnect is in flight included.
C4_FatalSetup ==
    /\ SetupInvalid =>
        /\ clientLog = << >>
        /\ ~redisClient
        /\ NoRowEnriched
        /\ outputFile = << >>
        /\ pc \in {"start", "awaitRead", "read", "classified", "catch",
                  "thrown", "aborted", "pending"}
        /\ pc = "thrown" => error \in {"noRows", "invalid", "callback", "read"}
    /\ error = "connect" =>
        /\ OpsOf("get") = {}
        /\ NoRowEnriched
        /\ outputFile = << >>
        /\ stats.processed = 0
        /\ pc \in {"catch", "thrown"}

\* A run that threw because the first data row has no Transfer ID column.
C4_Witness ==
    /\ pc = "thrown"
    /\ error = "invalid"
    /\ Len(rows) > 0
    /\ ~HasKey(DataRow(1), TransferIdCol)

----------------------------------------------------------------------------
(* C5 *)

\* C5: a run creates at most one client; when processCSV has returned or
\* thrown every client it created has been disconnected exactly once; no
\* lookup follows the disconnect.
C5_ClientReleased ==
    /\ Cardinality(OpsOf("create")) <= 1
    /\ pc \in {"returned", "thrown"} =>
          Cardinality(OpsOf("disconnect")) = Cardinality(OpsOf("create"))
    /\ \A d \in OpsOf("disconnect"), g \in OpsOf("get") : g < d

----------------------------------------------------------------------------
(* C6, under SpecClassify *)

\* C6: a row is tagged as a section header iff its first column is non-empty
\* and every other column is empty or whitespace-only; every other row is a
\* data row; each input row is in exactly one of the two classes.
C6_HeaderIff ==
    pc = "classified" =>
        /\ Len(processedRows) = Len(allRows)
        /\ \A k \in 1..Len(allRows) :
            /\ processedRows[k].cells = allRows[k]
            /\ processedRows[k].isSectionHeader <=>
                  /\ Len(allRows[k]) > 0
                  /\ allRows[k][1] # EmptyStr
                  /\ \A c \in 2..Len(allRows[k]) : WhitespaceOnly(allRows[k][c])
            /\ processedRows[k].isSectionHeader <=>
                  ~(\E d \in 1..Len(rows) : rows[d] = k)
            /\ Cardinality({d \in 1..Len(rows) : rows[d] = k}) <= 1
        /\ \A d \in 1..Len(rows) : rows[d] \in 1..Len(allRows)
        /\ stats.totalRows = Len(rows)

\* A row with a whitespace-only third column was tagged as a section header.
C6_Witness ==
    /\ pc = "classified"
    /\ \E k \in 1..Len(processedRows) :
        /\ processedRows[k].isSectionHeader
        /\ Len(processedRows[k].cells) = 3
        /\ processedRows[k].cells[3] = << SPACE >>

----------------------------------------------------------------------------
(* C7 *)

\* The fields of the line of data row k of the input: its value in each
\* column of the first data row (empty when it has none), then its outcome.
ExpectedFields(k) ==
    LET first == processedRows[rows[1]].cells
        mine == processedRows[k].cells
    IN  [c \in 1..Len(first) |->
            EscapeValue(IF c <= Len(mine) THEN mine[c] ELSE EmptyStr)]
        \o << processedRows[k].hti[1] >>

\* A file holds the first characters of a text, or all of it.
IsBeginning(file, text) ==
    /\ Len(file.text) <= Len(text)
    /\ file.text = SubSeq(text, 1, Len(file.text))
    /\ file.part # << >> =>
          /\ Len(file.text) < Len(text)
          /\ file.part[1].of = text[Len(file.text) + 1]
          /\ file.part[1].chars \in 1..(Len(file.part[1].of) - 1)

\* C7: after the line of column names the output has exactly one line per
\* input row, in input order: the bare first-column value for a section
\* header, the enriched field list for a data row.  The written text is these
\* lines joined by line breaks.  No file exists before 'writing' is reported
\* and the loop is over; while the write is in flight or after it failed the
\* file is absent, empty or holds the first characters of that text.
C7_OneLinePerRow ==
    /\ outputFile # << >> =>
          /\ i = Len(rows)
          /\ \E k \in 1..Len(reports) : reports[k].status = "writing"
    /\ (OutputWritten \/ outputFile # << >>) =>
        LET columnLine == HeaderLine(ColumnNames(processedRows[rows[1]]))
            body == [k \in 1..Len(inputFile) |->
                        IF processedRows[k].isSectionHeader
                        THEN inputFile[k][1]
                        ELSE Join(ExpectedFields(k), COMMA)]
            expected == Join(<< columnLine >> \o body, NEWLINE)
        IN  /\ outputFile # << >>
            /\ IsBeginning(outputFile[1], expected)
            /\ OutputWritten => outputFile = << Whole(expected) >>

\* An output written for a section header followed by a data row.
C7_Witness ==
    /\ OutputWritten
    /\ outputFile # << >>
    /\ Len(inputFile) = MaxRows
    /\ processedRows[1].isSectionHeader
    /\ ~processedRows[MaxRows].isSectionHeader

----------------------------------------------------------------------------
(* C8 *)

\* No row of the input is a section header and every lookup missed.
NoHeadersAllMiss ==
    /\ \A k \in 1..Len(processedRows) : ~processedRows[k].isSectionHeader
    /\ \A k \in 1..Len(calls) : calls[k].result = << >>

\* C8: with no section headers and every lookup missing, the output's column
\* list is the input's column list followed by Home Transaction ID, and each
\* output row carries the input row's value in every original column, then
\* NOT_FOUND, also when data rows differ in the columns they carry.  Stated
\* for the runs in which the progress callback never raises.
C8_RoundTrip ==
    (OutputWritten /\ NoHeadersAllMiss /\ ~CallbackRaised) =>
        LET body == [k \in 1..Len(allRows) |->
                        Join([c \in 1..Len(Cols) |->
                                EscapeValue(IF c <= Len(allRows[k])
                                            THEN allRows[k][c] ELSE EmptyStr)]
                             \o << NOT_FOUND >>, COMMA)]
        IN  outputFile =
              << FileOf(Join(<< HeaderLine(Cols \o << HomeTxCol >>) >> \o body, NEWLINE),
                        << >>) >>

----------------------------------------------------------------------------
(* C9 *)

\* C9: a data row whose Transfer ID is missing, empty or whitespace-only
\* causes no call to the store, is marked NOT_FOUND and is counted under
\* notFound, never under errors or found (the counts are compared while every
\* row handled so far is such a row and no lookup is in flight).
C9_BlankIdIsMiss ==
    /\ \A k \in BlankHandled :
        /\ DataRow(k).hti = << NOT_FOUND >>
        /\ TransferIdOf(k) # << >> =>
              \A g \in OpsOf("get") :
                  clientLog[g].key \notin { InKey(TransferIdOf(k)[1]),
                                            OutKey(TransferIdOf(k)[1]) }
    /\ (Handled = BlankHandled /\ pc # "awaitGet") =>
        /\ OpsOf("get") = {}
        /\ stats.notFound = i
        /\ stats.errors = 0
        /\ stats.found = 0

----------------------------------------------------------------------------
(* C10 *)

\* C10: the percentages reported while processing lie in 0..100 and never
\* decrease; the last one of a run that returned is 100 and was issued once
\* every data row was processed; statuses come in the order reading,
\* validating, connecting, processing, writing, complete, and complete only
\* after the output was written.
C10_Progress ==
    /\ \A k \in ProgressReports : reports[k].progress[1] \in 0..100
    /\ \A k \in ProgressReports, l \in ProgressReports :
          k < l => reports[k].progress[1] <= reports[l].progress[1]
    /\ \A k \in 1..Len(reports), l \in 1..Len(reports) :
          k < l => StatusRank(reports[k].status) <= StatusRank(reports[l].status)
    /\ \A k \in 1..Len(reports) :
          reports[k].status = "complete" =>
              outputFile = << Whole(OutputText(processedRows, rows)) >>
    /\ pc = "returned" =>
          /\ ProgressReports # {}
          /\ \A k \in ProgressReports :
                (\A l \in ProgressReports : l <= k) => reports[k].progress[1] = 100
          /\ stats.processed = stats.totalRows

----------------------------------------------------------------------------
(* C11 *)

\* The data rows handled so far whose Home Transaction ID is a given outcome.
HandledFound == { k \in Handled : DataRow(k).hti \notin { << NOT_FOUND >>, << ERROR >> } }

HandledAs(sentinel) == { k \in Handled : DataRow(k).hti = << sentinel >> }

\* C11: each data row handled, in input order, has incremented processed
\* exactly once and exactly one of found / notFound / errors exactly once,
\* the one that agrees with the value written to the row (found with the
\* resolved id, notFound with NOT_FOUND, errors with ERROR), whatever the
\* progress callback does, a callback that raises for that row included.
C11_OneCountPerRow ==
    /\ i <= Len(rows)
    /\ \A k \in 1..Len(rows) : (k \in Handled) <=> (DataRow(k).hti # << >>)
    /\ stats.processed = i
    /\ stats.found + stats.notFound + stats.errors = i
    /\ stats.found = Cardinality(HandledFound)
    /\ stats.notFound = Cardinality(HandledAs(NOT_FOUND))
    /\ stats.errors = Cardinality(HandledAs(ERROR))

====
